---- MODULE Spec2Model ----
(***************************************************************************)
(* Verification model of the request pipeline of BaseAPI                   *)
(* (src/lib/runtime.ts) and of IDTokenValidator.validate                   *)
(* (id-token-validator).                                                   *)
(*                                                                         *)
(* Spec   : one call of BaseAPI.request, cut at its suspension points      *)
(*          (every await): hooks, transport, timer, retry delay, parser.   *)
(* SpecV  : IDTokenValidator.validate applied to bounded tokens,           *)
(*          expectations and clock values.                                 *)
(* SpecF  : BaseAPI.createFetchParams applied to bounded request options.  *)
(* SpecH  : Spec under configurations of up to MaxHooks middlewares, for   *)
(*          the folds of the pre, onError and post phases.                 *)
(* SpecL  : Spec with weak fairness on the steps the runtime schedules     *)
(*          (hooks, timer, retry delay, parser), for termination.          *)
(* SpecC  : two calls of BaseAPI.request on one instance, interleaved at   *)
(*          their suspension points.                                       *)
(***************************************************************************)
EXTENDS Integers, Sequences, FiniteSets, TLC

(***************************************************************************)
(* Bounds of the model                                                     *)
(***************************************************************************)
\* longest middleware list of a configuration
MaxMiddleware == 1
\* largest configured maximum number of attempts of the retry policy
MaxAttempts == 2

(***************************************************************************)
(* Values of the pipeline                                                  *)
(***************************************************************************)
\* "no value": undefined in the source
None == "none"

\* response statuses the transport may resolve with
Statuses == {199, 200, 299, 300, 429, 500}
\* response statuses of the responses a hook may substitute
HookStatuses == {201, 404}

\* a Response, reduced to its status; Undefined is the source's `undefined`
Resp(s) == [defined |-> TRUE, status |-> s]
Undefined == [defined |-> FALSE, status |-> 0]

\* URLs: the one built by createFetchParams and one a pre hook substitutes
BuiltUrl == "built"
HookUrl == "hook"

\* what a transport call can reject with: node-fetch's AbortError, another
\* Error (DNS, reset, ...), or a thrown value that is not an Error
RejectKinds == {"AbortError", "Error", "NonError"}

\* a middleware is the set of hooks it defines
Middlewares == [pre : BOOLEAN, post : BOOLEAN, onError : BOOLEAN]

RECURSIVE SeqsUpTo(_, _)
SeqsUpTo(S, n) ==
    IF n = 0 THEN {<<>>}
    ELSE SeqsUpTo(S, n - 1) \cup
         {Append(s, x) : s \in {t \in SeqsUpTo(S, n - 1) : Len(t) = n - 1}, x \in S}

\* Configuration (runtime.ts:12-43) as far as the pipeline reads it
Configurations ==
    [middleware : SeqsUpTo(Middlewares, MaxMiddleware),
     retryEnabled : BOOLEAN,
     maxAttempts : 1..MaxAttempts]

VARIABLES
    configuration,  \* the Configuration of the BaseAPI instance (read-only)
    pc,             \* position of the request: the await it is suspended at
    idx,            \* index of the middleware the current phase is at
    fetchParams,    \* {url, init} of BaseAPI.fetch; init reduced to its signal key
    response,       \* the local `response` of BaseAPI.fetch (None = undefined)
    error,          \* the error `e` caught in BaseAPI.fetch, or None
    attempts,       \* per transport attempt: the state of its fetchWithTimeout call
    parserArg,      \* status of the response handed to parseError, or None
    outcome,        \* what request() settled with, or None
    hookCall,       \* the hook call of the current loop turn, if the turn made one
    validator,      \* the IDTokenValidator: its alg and clockTolerance fields
    idToken,        \* the token handed to validate(): header, signing key, payload
    options,        \* the ValidateOptions handed to validate()
    now,            \* the clock, in seconds
    result,         \* what validate() settled with
    requestParameters, \* the argument of the manager method: key -> kind of value
    envelope,       \* the ApiResponse the manager method built, if any
    context,        \* the RequestOpts handed to createFetchParams
    initOverrides,  \* the init overrides handed to createFetchParams
    params,         \* the {url, init} createFetchParams resolved with
    suspended       \* the locals of a second call on the instance, while the
                    \* event loop runs the first (the variables above)

pipelineVars == <<configuration, pc, idx, fetchParams, response, error, attempts,
                  parserArg, outcome, hookCall>>
validatorVars == <<validator, idToken, options, now, result>>
managerVars == <<requestParameters, envelope>>
builderVars == <<context, initOverrides, params>>
vars == <<pipelineVars, validatorVars, managerVars, builderVars, suspended>>


\* outcome of request(): nothing yet, a returned response, or a raised error
NoOutcome == [kind |-> "none", status |-> 0, error |-> None, cause |-> None]
Returned(r) == [kind |-> "returned", status |-> r.status, error |-> None, cause |-> None]
Raised(e, c) == [kind |-> "raised", status |-> 0, error |-> e, cause |-> c]

Middleware == configuration.middleware
NumMiddleware == Len(Middleware)
NumAttempts == Len(attempts)

(***************************************************************************)
(* fetchWithTimeout (runtime.ts:130-145)                                   *)
(***************************************************************************)
\* runtime.ts:136  { signal: controller.signal, ...init }: a signal key of
\* init supersedes the controller's signal
TransportSignal(init) == IF init.signal THEN "init" ELSE "controller"

\* one controller for all the calls: a call starts with the state the
\* controller of the call before it was left in
NewAttemptSharedController(url, init) ==
    [timer |-> "pending",
     aborted |-> NumAttempts > 0 /\ attempts[NumAttempts].aborted,
     settled |-> FALSE,
     url |-> url, signal |-> TransportSignal(init), status |-> 0, thrown |-> None]

\* runtime.ts:131-136  a new controller, a new timer, the transport call
\* with the url and the init it was handed
NewAttempt(url, init) ==
    [timer |-> "pending", aborted |-> FALSE, settled |-> FALSE,
     url |-> url, signal |-> TransportSignal(init), status |-> 0, thrown |-> None]

\* a finally block that forgets the timer
ClearTimeoutSkipped(t) == t

\* runtime.ts:142-144  finally { clearTimeout(timeout) }: a pending timer is
\* cancelled, a timer that has fired stays fired
ClearTimeout(t) == IF t = "pending" THEN "cleared" ELSE t

\* runtime.ts:137-141  an AbortError becomes a TimeoutError, anything else
\* is rethrown as it is
CaughtAs(k) == IF k = "AbortError" THEN "TimeoutError" ELSE k

\* runtime.ts:136,142-144  the transport resolved: return the response
Resolved(a, s) ==
    [a EXCEPT !.settled = TRUE, !.status = s, !.timer = ClearTimeout(a.timer)]

\* runtime.ts:137-144  the transport rejected: throw
Rejected(a, k) ==
    [a EXCEPT !.settled = TRUE, !.thrown = CaughtAs(k), !.timer = ClearTimeout(a.timer)]

\* the signal the transport observes has been triggered: the controller's
\* when the timer fired; a signal of init belongs to the caller, who may
\* trigger it at any time
SignalTriggered(a) == IF a.signal = "controller" THEN a.aborted ELSE TRUE

(***************************************************************************)
(* retry (lib/retry.ts)                                                    *)
(***************************************************************************)
\* statuses the policy retries: rate limit and 5xx
RetryableStatus(s) == s = 429 \/ s >= 500

\* another attempt is made after a failure or a retryable status while the
\* maximum number of attempts is not reached
ShouldRetry(n, failed, s) ==
    /\ n < configuration.maxAttempts
    /\ failed \/ RetryableStatus(s)

(***************************************************************************)
(* BaseAPI.fetch (runtime.ts:147-200)                                      *)
(***************************************************************************)
\* the retry flag ignored: always through the retry policy
UseRetryAlways == TRUE
\* the retry flag ignored: never through the retry policy
UseRetryNever == FALSE

\* runtime.ts:161  this.configuration.retry?.enabled !== false
UseRetry == configuration.retryEnabled

\* runtime.ts:179  e instanceof Error: the TimeoutError of fetchWithTimeout
\* (runtime.ts:139, passed to FetchError as its cause) and the errors of the
\* transport are Error instances, other thrown values are not
InstanceOfError(e) == e \in {"Error", "TimeoutError"}

\* the replacement fetch params a pre hook may return
FetchParamsSet == [url : {BuiltUrl, HookUrl}, init : [signal : BOOLEAN]]

\* a pre hook that returns nothing
NoFetchParams == [url |-> None, init |-> [signal |-> FALSE]]

\* a pre phase that drops what its hooks return
PreResultDropped(returned, previous) == previous

\* runtime.ts:151-155  (await middleware.pre(...)) || fetchParams
PreResult(returned, previous) ==
    IF returned = NoFetchParams THEN previous ELSE returned

\* an onError phase that keeps the first response a hook supplied
OnErrorResultFirst(returned, previous) ==
    IF previous.defined THEN previous ELSE returned

\* runtime.ts:169-175  (await middleware.onError(...)) || response
OnErrorResult(returned, previous) ==
    IF returned.defined THEN returned ELSE previous

\* a post phase that drops what its hooks return
PostResultDropped(returned, previous) == previous

\* runtime.ts:191-196  (await middleware.post(...)) || response
PostResult(returned, previous) ==
    IF returned.defined THEN returned ELSE previous

\* the current loop turn made no hook call (or no loop is running)
NoHookCall == [phase |-> None, mw |-> 0, received |-> Undefined, returned |-> Undefined]

\* runtime.ts:152-154,170-175,192-196  one hook call: its phase, the middleware
\* it belongs to, the fetch params or the response it was given, what it returned
HookCall(phase, i, received, returned) ==
    [phase |-> phase, mw |-> i, received |-> received, returned |-> returned]

(***************************************************************************)
(* Values of the token validator                                           *)
(***************************************************************************)
\* most fields of one validation that differ from the reference validation
MaxDeviations == 2
\* longest aud array of a token
MaxAudLen == 2

\* const DEFAULT_CLOCK_TOLERANCE = 60
DEFAULT_CLOCK_TOLERANCE == 60

\* a JSON value: undefined, a string, a number, an array of strings, or an
\* object; every value has the same fields so that values compare
Absent == [t |-> "undefined", s |-> "", n |-> 0, a |-> <<>>]
Str(x) == [t |-> "string", s |-> x, n |-> 0, a |-> <<>>]
Num(x) == [t |-> "number", s |-> "", n |-> x, a |-> <<>>]
Arr(x) == [t |-> "array", s |-> "", n |-> 0, a |-> x]
Obj == [t |-> "object", s |-> "", n |-> 0, a |-> <<>>]

\* JavaScript truthiness: undefined, "" and 0 are falsy
Truthy(v) ==
    CASE v.t = "undefined" -> FALSE
      [] v.t = "string" -> v.s # ""
      [] v.t = "number" -> v.n # 0
      [] OTHER -> TRUE

\* Array.prototype.includes on an array of strings
Includes(v, x) == \E i \in 1..Len(v.a) : v.a[i] = x

ClientId == "client-a"
OtherClient == "client-b"
\* id-token-validator:37  this.issuer = `https://${domain}/`
Issuer == "https://tenant/"

\* the alg header of a token, and the key its signature was made with: the
\* client secret, a key of the tenant's key set, or a key of someone else
HeaderAlgs == {"RS256", "RS384", "HS256", "HS384", "none"}
SigningKeys == {"secret", "jwks", "forged"}

\* the reference validation: an RS256 token of the tenant for the client,
\* signed with a key of the tenant's key set, valid at the time of validation
Reference ==
    [alg |-> "RS256", clockTolerance |-> DEFAULT_CLOCK_TOLERANCE,
     signature |-> [alg |-> "RS256", signedWith |-> "jwks"],
     iss |-> Str(Issuer), sub |-> Str("user"), aud |-> Str(ClientId),
     org_id |-> Absent, exp |-> Num(1000), iat |-> Num(900), nonce |-> Absent,
     azp |-> Absent, auth_time |-> Num(900),
     optNonce |-> Absent, optMaxAge |-> Absent, optOrganization |-> Absent,
     now |-> 950]

\* the other values of each field
Alternatives ==
    [alg |-> {"HS256", "HS384"},
     clockTolerance |-> {0},
     signature |-> [alg : HeaderAlgs, signedWith : SigningKeys],
     iss |-> {Absent, Obj, Str("https://other/")},
     sub |-> {Absent, Obj},
     aud |-> {Absent, Obj, Str(OtherClient)} \cup
             {Arr(a) : a \in SeqsUpTo({ClientId, OtherClient}, MaxAudLen)},
     org_id |-> {Str("org-1"), Str("org-2"), Obj},
     exp |-> {Absent, Str("1000"), Num(2000)},
     iat |-> {Absent, Str("900")},
     nonce |-> {Str("nonce-1"), Str("nonce-2")},
     azp |-> {Str(ClientId), Str(OtherClient), Obj},
     auth_time |-> {Absent, Str("900")},
     optNonce |-> {Str("nonce-1")},
     optMaxAge |-> {Num(0), Num(30)},
     optOrganization |-> {Str("org-1")},
     now |-> {990, 991, 999, 1000, 1060, 1061}]

\* the validations that differ from the reference in at most n fields
RECURSIVE Deviations(_)
Deviations(n) ==
    IF n = 0 THEN {Reference}
    ELSE LET prev == Deviations(n - 1)
         IN prev \cup UNION {{[sc EXCEPT ![f] = x] : x \in Alternatives[f]} :
                                sc \in prev, f \in DOMAIN Reference}

ValidatorOf(sc) == [alg |-> sc.alg, clockTolerance |-> sc.clockTolerance]
PayloadOf(sc) ==
    [iss |-> sc.iss, sub |-> sc.sub, aud |-> sc.aud, org_id |-> sc.org_id,
     exp |-> sc.exp, iat |-> sc.iat, nonce |-> sc.nonce, azp |-> sc.azp,
     auth_time |-> sc.auth_time]
TokenOf(sc) ==
    [header |-> [alg |-> sc.signature.alg], signedWith |-> sc.signature.signedWith,
     payload |-> PayloadOf(sc)]
OptionsOf(sc) ==
    [nonce |-> sc.optNonce, maxAge |-> sc.optMaxAge,
     organization |-> sc.optOrganization]

\* no payload: what a validation that raised leaves to the caller
NoPayload == [f \in DOMAIN PayloadOf(Reference) |-> Absent]

\* the settlement of validate(): a returned payload, or a raised error with
\* its class and the check that raised it
NoResult == [state |-> "none", payload |-> NoPayload, class |-> None, check |-> None]
Returns(p) == [state |-> "returned", payload |-> p, class |-> None, check |-> None]
Throws(c, k) == [state |-> "raised", payload |-> NoPayload, class |-> c, check |-> k]

(***************************************************************************)
(* jose.jwtVerify(idToken, secret, {issuer, audience})                     *)
(* (id-token-validator:43-46): signature, then the claims set.  No         *)
(* clockTolerance option is passed, so the library's tolerance is 0.       *)
(* Tokens carry no nbf claim.  The library's errors are its own classes,   *)
(* not IdTokenValidatorError.                                              *)
(***************************************************************************)
HSFamily == {"HS256", "HS384"}
RSFamily == {"RS256", "RS384"}

\* the signature verifies with the key handed to jwtVerify: a symmetric
\* secret verifies HS tokens signed with it, the remote key set verifies
\* RS tokens signed with one of its keys; alg "none" never verifies
SignatureVerifies(tok, key) ==
    \/ key = "secret" /\ tok.header.alg \in HSFamily /\ tok.signedWith = "secret"
    \/ key = "jwks" /\ tok.header.alg \in RSFamily /\ tok.signedWith = "jwks"

\* issuer option: payload.iss must be the expected issuer
JoseIssuer(p) == p.iss.t = "string" /\ p.iss.s = Issuer

\* audience option: a string aud must be the expected audience, an array aud
\* must contain it
JoseAudience(p) ==
    \/ p.aud.t = "string" /\ p.aud.s = ClientId
    \/ p.aud.t = "array" /\ Includes(p.aud, ClientId)

\* iat, when present, must be a number
JoseIssuedAt(p) == p.iat.t \in {"undefined", "number"}

\* exp, when present, must be a number
JoseExpType(p) == p.exp.t \in {"undefined", "number"}

\* exp, when present, must be later than now (tolerance 0)
JoseNotExpired(p, t) == p.exp.t = "number" => p.exp.n > t

JwtVerify(tok, key, t) ==
    LET p == tok.payload IN
    IF ~SignatureVerifies(tok, key) THEN Throws("JOSEError", "signature")
    ELSE IF ~JoseIssuer(p) THEN Throws("JWTClaimValidationFailed", "iss")
    ELSE IF ~JoseAudience(p) THEN Throws("JWTClaimValidationFailed", "aud")
    ELSE IF ~JoseIssuedAt(p) THEN Throws("JWTClaimValidationFailed", "iat")
    ELSE IF ~JoseExpType(p) THEN Throws("JWTClaimValidationFailed", "exp")
    ELSE IF ~JoseNotExpired(p, t) THEN Throws("JWTExpired", "exp")
    ELSE Returns(p)

(***************************************************************************)
(* IDTokenValidator.validate (id-token-validator:41-174)                   *)
(***************************************************************************)
\* a key selection by algorithm family
KeyForFamily(vd) == IF vd.alg \in HSFamily THEN "secret" ELSE "jwks"

\* :42  this.alg === 'HS256' ? this.secret : this.jwks
KeyFor(vd) == IF vd.alg = "HS256" THEN "secret" ELSE "jwks"

\* an algorithm check that accepts every header
AlgorithmCheckSkipped(tok, vd) == TRUE

\* :48  header.alg !== this.alg
AlgorithmCheck(tok, vd) == tok.header.alg = vd.alg

\* :54-63
IssuerCheck(p) == Truthy(p.iss) /\ p.iss.t = "string" /\ p.iss.s = Issuer

\* :66
SubjectCheck(p) == Truthy(p.sub) /\ p.sub.t = "string"

\* an audience check that looks at the first entry of the array only
AudienceCheckFirstOnly(p) ==
    /\ Truthy(p.aud) /\ p.aud.t \in {"string", "array"}
    /\ p.aud.t = "array" => Len(p.aud.a) > 0 /\ p.aud.a[1] = ClientId
    /\ p.aud.t = "string" => p.aud.s = ClientId

\* :73-88
AudienceCheck(p) ==
    /\ Truthy(p.aud) /\ p.aud.t \in {"string", "array"}
    /\ p.aud.t = "array" => Includes(p.aud, ClientId)
    /\ p.aud.t = "string" => p.aud.s = ClientId

\* an organization check that only looks for the presence of org_id
OrganizationCheckPresenceOnly(p, opt) ==
    Truthy(opt.organization) => Truthy(p.org_id) /\ p.org_id.t = "string"

\* :91-103
OrganizationCheck(p, opt) ==
    Truthy(opt.organization) =>
        /\ Truthy(p.org_id) /\ p.org_id.t = "string"
        /\ p.org_id.s = opt.organization.s

\* :109-113
ExpirationPresent(p) == Truthy(p.exp) /\ p.exp.t = "number"

\* :114-120  now > payload.exp + this.clockTolerance
ExpirationCheck(p, vd, t) == ~(t > p.exp.n + vd.clockTolerance)

\* :123
IssuedAtCheck(p) == Truthy(p.iat) /\ p.iat.t = "number"

\* :130-141
NonceCheck(p, opt) ==
    Truthy(opt.nonce) =>
        /\ Truthy(p.nonce) /\ p.nonce.t = "string"
        /\ p.nonce.s = opt.nonce.s

\* an authorized-party check that applies to every aud array
AuthorizedPartyCheckAnyArray(p) ==
    p.aud.t = "array" /\ Len(p.aud.a) > 0 =>
        /\ Truthy(p.azp) /\ p.azp.t = "string"
        /\ p.azp.s = ClientId

\* :144-155
AuthorizedPartyCheck(p) ==
    p.aud.t = "array" /\ Len(p.aud.a) > 1 =>
        /\ Truthy(p.azp) /\ p.azp.t = "string"
        /\ p.azp.s = ClientId

\* :158-171
AuthTimeCheck(p, vd, opt, t) ==
    Truthy(opt.maxAge) =>
        /\ Truthy(p.auth_time) /\ p.auth_time.t = "number"
        /\ ~(t > p.auth_time.n + opt.maxAge.n + vd.clockTolerance)

Invalid(k) == Throws("IdTokenValidatorError", k)

\* :41-174
Validate(vd, tok, opt, t) ==
    LET verified == JwtVerify(tok, KeyFor(vd), t)
        p == verified.payload
    IN
    IF verified.state = "raised" THEN verified
    ELSE IF ~AlgorithmCheck(tok, vd) THEN Invalid("alg")
    ELSE IF ~IssuerCheck(p) THEN Invalid("iss")
    ELSE IF ~SubjectCheck(p) THEN Invalid("sub")
    ELSE IF ~AudienceCheck(p) THEN Invalid("aud")
    ELSE IF ~OrganizationCheck(p, opt) THEN Invalid("org_id")
    ELSE IF ~ExpirationPresent(p) THEN Invalid("exp")
    ELSE IF ~ExpirationCheck(p, vd, t) THEN Invalid("exp")
    ELSE IF ~IssuedAtCheck(p) THEN Invalid("iat")
    ELSE IF ~NonceCheck(p, opt) THEN Invalid("nonce")
    ELSE IF ~AuthorizedPartyCheck(p) THEN Invalid("azp")
    ELSE IF ~AuthTimeCheck(p, vd, opt, t) THEN Invalid("auth_time")
    ELSE Returns(p)

(***************************************************************************)
(* A generated manager method: required parameters and response envelope   *)
(***************************************************************************)
\* the kinds of value a request parameter can have; the present value taken
\* is the empty string '', the one a truthiness test would take for missing
ParamValues == {"null", "undefined", "empty"}

\* KeysManager.ts:38  the key list a generated method hands to the helper
\* (KeysManager.get hands ['kid']; a method with two required keys is taken)
RequiredKeys == <<"kid", "id">>

RequestParameterSets == [{RequiredKeys[i] : i \in 1..Len(RequiredKeys)} -> ParamValues]

IsMissingUndefinedOnly(v) == v = "undefined"

\* runtime.ts:436  requestParameters[key] === null || === undefined
IsMissing(v) == v = "null" \/ v = "undefined"

\* runtime.ts:435-442  keys.forEach, left at the first throw
RECURSIVE FirstMissingFrom(_, _, _)
FirstMissingFrom(requestParams, keys, i) ==
    IF i > Len(keys) THEN None
    ELSE IF IsMissing(requestParams[keys[i]]) THEN keys[i]
    ELSE FirstMissingFrom(requestParams, keys, i + 1)

\* runtime.ts:431-443  the key the RequiredError names, None when nothing is thrown
ValidateRequiredRequestParams(requestParams, keys) ==
    FirstMissingFrom(requestParams, keys, 1)

\* runtime.ts:437-440  new RequiredError(key, `Required parameter ...`)
RequiredError(field) ==
    [kind |-> "raised", status |-> 0, error |-> "RequiredError", cause |-> None,
     field |-> field,
     message |-> "Required parameter requestParameters." \o field
                     \o " was null or undefined."]

\* runtime.ts:385-388  JSONApiResponse.fromResponse(raw)
NoEnvelope == [defined |-> FALSE, raw |-> Undefined]
JSONApiResponse(raw) == [defined |-> TRUE, raw |-> raw]

(***************************************************************************)
(* createFetchParams: the URL and the header map                           *)
(***************************************************************************)
MaxQueryKeys == 2

BaseUrls == {"https://tenant/api/v2"}
Paths == {"/keys/signing", "/keys/signing/k1"}
QueryKeys == {"q", "a&b"}

\* query values: a string, null, or an array of strings
QStr(s) == [t |-> "str", s |-> s, a |-> <<>>]
QNull == [t |-> "null", s |-> "", a |-> <<>>]
QArr(a) == [t |-> "arr", s |-> "", a |-> a]
QueryValues == {QStr("x y"), QNull, QArr(<<>>), QArr(<<"1", "x y">>)}

\* an HTTPQuery object as its keys in insertion order; undefined when not defined
QueryEntries == [key : QueryKeys, value : QueryValues]
DistinctKeys(es) == \A i, j \in 1..Len(es) : i # j => es[i].key # es[j].key
NoQuery == [defined |-> FALSE, entries |-> <<>>]
Queries ==
    {NoQuery} \cup
    {[defined |-> TRUE, entries |-> es] :
        es \in {x \in SeqsUpTo(QueryEntries, MaxQueryKeys) : DistinctKeys(x)}}

\* header objects: key -> "absent" (no such key), "undefined" or a value
HeaderKeys == {"accept", "x-trace"}
HeaderMaps(vals) == [HeaderKeys -> {"absent", "undefined"} \cup vals]
EmptyObject == [k \in HeaderKeys |-> "absent"]

\* the configuration as createFetchParams reads it
BuilderConfigurations == [baseUrl : BaseUrls, headers : HeaderMaps({"d"})]
Contexts == [path : Paths, query : Queries, headers : HeaderMaps({"r"})]

\* runtime.ts:87,99-100  the init overrides: none, a RequestInit or a function
\* resolving with one; the RequestInit may or may not carry a headers key
NoOverrides == [kind |-> "none", hasHeaders |-> FALSE, headers |-> EmptyObject]
OverrideHeaderMaps ==
    {[k \in HeaderKeys |-> IF k = "accept" THEN "o" ELSE "absent"],
     [k \in HeaderKeys |-> IF k = "accept" THEN "undefined" ELSE "absent"]}
InitOverrideSet ==
    {NoOverrides}
    \cup [kind : {"static", "function"}, hasHeaders : {FALSE}, headers : {EmptyObject}]
    \cup [kind : {"static", "function"}, hasHeaders : {TRUE}, headers : OverrideHeaderMaps]

\* runtime.ts:300,309  String(value)
StringOf(v) == IF v.t = "null" THEN "null" ELSE v.s

\* encodeURIComponent, on the strings in use
EncodeURIComponent(s) ==
    CASE s = "x y" -> "x%20y"
      [] s = "a&b" -> "a%26b"
      [] OTHER -> s

\* runtime.ts:304-306  the encoded values joined by `&${encodeURIComponent(key)}=`
RECURSIVE JoinMultiValue(_, _, _)
JoinMultiValue(vals, key, i) ==
    IF i > Len(vals) THEN <<>>
    ELSE (IF i > 1 THEN <<"&", EncodeURIComponent(key), "=">> ELSE <<>>)
         \o <<EncodeURIComponent(vals[i])>>
         \o JoinMultiValue(vals, key, i + 1)

\* runtime.ts:292-310  a string is the sequence of its pieces
QuerystringSingleKey(key, value) ==
    IF value.t = "arr"
    THEN <<EncodeURIComponent(key), "=">> \o JoinMultiValue(value.a, key, 1)
    ELSE <<EncodeURIComponent(key), "=", EncodeURIComponent(StringOf(value))>>

\* runtime.ts:285-290  map, filter(part.length > 0), join('&')
RECURSIVE JoinParts(_, _)
JoinParts(parts, i) ==
    IF i > Len(parts) THEN <<>>
    ELSE (IF i > 1 THEN <<"&">> ELSE <<>>) \o parts[i] \o JoinParts(parts, i + 1)

Querystring(entries) ==
    LET parts == [i \in 1..Len(entries) |->
                     QuerystringSingleKey(entries[i].key, entries[i].value)]
    IN  JoinParts(SelectSeq(parts, LAMBDA part : Len(part) > 0), 1)

AppendsQueryWhenDefined(query) == query.defined

\* runtime.ts:90  context.query !== undefined && Object.keys(...).length !== 0
AppendsQuery(query) == query.defined /\ Len(query.entries) # 0

\* runtime.ts:89-95
BuildUrl(config, ctx) ==
    <<config.baseUrl, ctx.path>>
    \o (IF AppendsQuery(ctx.query) THEN <<"?">> \o Querystring(ctx.query.entries)
        ELSE <<>>)

\* Object.assign(target, source): every own key of source, undefined-valued too
ObjectAssign(target, source) ==
    [k \in HeaderKeys |-> IF source[k] # "absent" THEN source[k] ELSE target[k]]

\* runtime.ts:98  delete headers[key] when headers[key] === undefined
DeleteUndefined(headers) ==
    [k \in HeaderKeys |-> IF headers[k] = "undefined" THEN "absent" ELSE headers[k]]

MergeHeadersDefaultsWin(defaults, perRequest) ==
    DeleteUndefined(ObjectAssign(ObjectAssign(EmptyObject, perRequest), defaults))

\* runtime.ts:97-98
MergeHeaders(defaults, perRequest) ==
    DeleteUndefined(ObjectAssign(ObjectAssign(EmptyObject, defaults), perRequest))

\* runtime.ts:109-115  {...initParams, ...overrides}, reduced to the headers key
OverriddenHeaders(headers, overrides) ==
    IF overrides.hasHeaders THEN overrides.headers ELSE headers

\* runtime.ts:85-128
NoParams == [built |-> FALSE, url |-> <<>>, init |-> [headers |-> EmptyObject]]
CreateFetchParams(config, ctx, overrides) ==
    [built |-> TRUE,
     url |-> BuildUrl(config, ctx),
     init |-> [headers |-> OverriddenHeaders(MergeHeaders(config.headers, ctx.headers),
                                             overrides)]]

\* the builder's inputs while no createFetchParams call is looked at
IdleContext == [path |-> "/keys/signing", query |-> NoQuery, headers |-> EmptyObject]

(***************************************************************************)
(* The locals of one call: KeysManager.get, request, fetch, fetchWithTimeout*)
(***************************************************************************)
\* KeysManager.ts:34-52, runtime.ts:71-83,130-200  the parameters and the
\* local variables of the call the event loop is running
CurrentRequest ==
    [pc |-> pc, idx |-> idx, fetchParams |-> fetchParams, response |-> response,
     error |-> error, attempts |-> attempts, parserArg |-> parserArg,
     outcome |-> outcome, hookCall |-> hookCall,
     requestParameters |-> requestParameters, envelope |-> envelope]

\* a call that has not started
NewRequest(requestParams) ==
    [pc |-> "idle", idx |-> 0,
     fetchParams |-> [url |-> BuiltUrl, init |-> [signal |-> FALSE]],
     response |-> Undefined, error |-> None, attempts |-> <<>>, parserArg |-> 0,
     outcome |-> NoOutcome, hookCall |-> NoHookCall,
     requestParameters |-> requestParams, envelope |-> NoEnvelope]

\* there is no second call
NoRequest ==
    [NewRequest([k \in {"kid", "id"} |-> "empty"]) EXCEPT !.pc = None]

(***************************************************************************)
(* One call of BaseAPI.request                                             *)
(***************************************************************************)
Init ==
    /\ configuration \in Configurations
    /\ validator = ValidatorOf(Reference)
    /\ idToken = TokenOf(Reference)
    /\ options = OptionsOf(Reference)
    /\ now = Reference.now
    /\ result = NoResult
    /\ pc = "idle"
    /\ idx = 0
    /\ fetchParams = [url |-> BuiltUrl, init |-> [signal |-> FALSE]]
    /\ response = Undefined
    /\ error = None
    /\ attempts = <<>>
    /\ parserArg = 0
    /\ outcome = NoOutcome
    /\ hookCall = NoHookCall
    /\ requestParameters \in RequestParameterSets
    /\ envelope = NoEnvelope
    /\ context = IdleContext
    /\ initOverrides = NoOverrides
    /\ params = NoParams
    /\ suspended = NoRequest

\* KeysManager.ts:38-50, runtime.ts:71-76,85-128,148  the manager method checks
\* its required parameters and throws, or calls request(): createFetchParams
\* (the init overrides may carry a signal), then fetch() enters its pre phase
Request ==
    /\ pc = "idle"
    /\ LET missing == ValidateRequiredRequestParams(requestParameters, RequiredKeys)
       IN  IF missing # None
           THEN /\ pc' = "done"
                /\ outcome' = RequiredError(missing)
                /\ UNCHANGED <<fetchParams, idx>>
           ELSE /\ \E sig \in BOOLEAN :
                      fetchParams' = [url |-> BuiltUrl, init |-> [signal |-> sig]]
                /\ pc' = "pre"
                /\ idx' = 1
                /\ outcome' = outcome
    /\ UNCHANGED <<configuration, response, error, attempts, parserArg>>
    /\ UNCHANGED <<hookCall, validatorVars, managerVars, builderVars, suspended>>

\* runtime.ts:149-157  one turn of the pre loop
PreHook ==
    /\ pc = "pre"
    /\ idx <= NumMiddleware
    /\ IF Middleware[idx].pre
       THEN \E r \in FetchParamsSet \cup {NoFetchParams} :
               /\ fetchParams' = PreResult(r, fetchParams)
               /\ hookCall' = HookCall("pre", idx, fetchParams, r)
       ELSE /\ fetchParams' = fetchParams
            /\ hookCall' = NoHookCall
    /\ idx' = idx + 1
    /\ UNCHANGED <<configuration, pc, response, error, attempts, parserArg, outcome>>
    /\ UNCHANGED <<validatorVars, managerVars, builderVars, suspended>>

\* runtime.ts:158-165  the first call of fetchWithTimeout
StartExchange ==
    /\ pc = "pre"
    /\ idx = NumMiddleware + 1
    /\ attempts' = Append(attempts, NewAttempt(fetchParams.url, fetchParams.init))
    /\ pc' = "exchange"
    /\ UNCHANGED <<configuration, idx, fetchParams, response, error, parserArg, outcome>>
    /\ hookCall' = NoHookCall
    /\ UNCHANGED <<validatorVars, managerVars, builderVars, suspended>>

\* one controller for the instance: the expiry of a timer aborts the
\* exchange in flight of the other call as well
TimerFireSharedController(i) ==
    /\ attempts[i].timer = "pending"
    /\ attempts' = [attempts EXCEPT ![i].timer = "fired", ![i].aborted = TRUE]
    /\ suspended' =
          IF suspended.pc = "exchange"
          THEN [suspended EXCEPT !.attempts[Len(suspended.attempts)].aborted = TRUE]
          ELSE suspended
    /\ UNCHANGED <<configuration, pc, idx, fetchParams, response, error, parserArg, outcome>>
    /\ UNCHANGED <<hookCall, validatorVars, managerVars, builderVars>>

\* runtime.ts:132-134  the timer of attempt i expires: controller.abort()
TimerFire(i) ==
    /\ attempts[i].timer = "pending"
    /\ attempts' = [attempts EXCEPT ![i].timer = "fired", ![i].aborted = TRUE]
    /\ UNCHANGED <<configuration, pc, idx, fetchParams, response, error, parserArg, outcome>>
    /\ UNCHANGED <<hookCall, validatorVars, managerVars, builderVars, suspended>>

\* runtime.ts:136,142-144,160-165  the transport resolves with status s;
\* fetchWithTimeout returns it; the retry policy decides
TransportResolve(s) ==
    /\ pc = "exchange"
    /\ attempts' = [attempts EXCEPT ![NumAttempts] = Resolved(attempts[NumAttempts], s)]
    /\ IF UseRetry /\ ShouldRetry(NumAttempts, FALSE, s)
       THEN /\ pc' = "retryWait"
            /\ UNCHANGED <<idx, response>>
       ELSE /\ pc' = "post"
            /\ idx' = 1
            /\ response' = Resp(s)
    /\ UNCHANGED <<configuration, fetchParams, error, parserArg, outcome>>
    /\ UNCHANGED <<hookCall, validatorVars, managerVars, builderVars, suspended>>

\* runtime.ts:136-144,160-166  the transport rejects with k; fetchWithTimeout
\* throws; the retry policy decides; the catch block of fetch is entered
TransportReject(k) ==
    /\ pc = "exchange"
    /\ k = "AbortError" => SignalTriggered(attempts[NumAttempts])
    /\ attempts' = [attempts EXCEPT ![NumAttempts] = Rejected(attempts[NumAttempts], k)]
    /\ IF UseRetry /\ ShouldRetry(NumAttempts, TRUE, 0)
       THEN /\ pc' = "retryWait"
            /\ UNCHANGED <<idx, error>>
       ELSE /\ pc' = "onError"
            /\ idx' = 1
            /\ error' = CaughtAs(k)
    /\ UNCHANGED <<configuration, fetchParams, response, parserArg, outcome>>
    /\ UNCHANGED <<hookCall, validatorVars, managerVars, builderVars, suspended>>

\* the delay of the retry policy is over: the next call of fetchWithTimeout
RetryDelayElapsed ==
    /\ pc = "retryWait"
    /\ attempts' = Append(attempts, NewAttempt(fetchParams.url, fetchParams.init))
    /\ pc' = "exchange"
    /\ UNCHANGED <<configuration, idx, fetchParams, response, error, parserArg, outcome>>
    /\ UNCHANGED <<hookCall, validatorVars, managerVars, builderVars, suspended>>

\* runtime.ts:167-177  one turn of the onError loop
OnErrorHook ==
    /\ pc = "onError"
    /\ idx <= NumMiddleware
    /\ IF Middleware[idx].onError
       THEN \E r \in {Resp(s) : s \in HookStatuses} \cup {Undefined} :
               /\ response' = OnErrorResult(r, response)
               /\ hookCall' = HookCall("onError", idx, response, r)
       ELSE /\ response' = response
            /\ hookCall' = NoHookCall
    /\ idx' = idx + 1
    /\ UNCHANGED <<configuration, pc, fetchParams, error, attempts, parserArg, outcome>>
    /\ UNCHANGED <<validatorVars, managerVars, builderVars, suspended>>

\* a catch block that falls through to the post loop without a response
OnErrorDoneFallThrough ==
    /\ pc = "onError"
    /\ idx = NumMiddleware + 1
    /\ pc' = "post"
    /\ idx' = 1
    /\ hookCall' = NoHookCall
    /\ UNCHANGED <<configuration, fetchParams, response, error, attempts, parserArg,
                   outcome>>
    /\ UNCHANGED <<validatorVars, managerVars, builderVars, suspended>>

\* runtime.ts:178-188  after the onError loop: raise, or go on with the
\* response a hook supplied
OnErrorDone ==
    /\ pc = "onError"
    /\ idx = NumMiddleware + 1
    /\ IF ~response.defined
       THEN /\ pc' = "done"
            /\ outcome' = IF InstanceOfError(error)
                          THEN Raised("FetchError", error)
                          ELSE Raised(error, None)
            /\ idx' = idx
       ELSE /\ pc' = "post"
            /\ idx' = 1
            /\ outcome' = outcome
    /\ UNCHANGED <<configuration, fetchParams, response, error, attempts, parserArg>>
    /\ hookCall' = NoHookCall
    /\ UNCHANGED <<validatorVars, managerVars, builderVars, suspended>>

\* runtime.ts:189-198  one turn of the post loop
PostHook ==
    /\ pc = "post"
    /\ idx <= NumMiddleware
    /\ IF Middleware[idx].post
       THEN \E r \in {Resp(s) : s \in HookStatuses} \cup {Undefined} :
               /\ response' = PostResult(r, response)
               /\ hookCall' = HookCall("post", idx, response, r)
       ELSE /\ response' = response
            /\ hookCall' = NoHookCall
    /\ idx' = idx + 1
    /\ UNCHANGED <<configuration, pc, fetchParams, error, attempts, parserArg, outcome>>
    /\ UNCHANGED <<validatorVars, managerVars, builderVars, suspended>>

\* an off-by-one upper bound of the success range
IsSuccessUpTo300(r) == r.defined /\ r.status >= 200 /\ r.status <= 300

\* runtime.ts:77  response && response.status >= 200 && response.status < 300
IsSuccess(r) == r.defined /\ r.status >= 200 /\ r.status < 300

\* runtime.ts:199,76-81  fetch returns; request returns a 2xx response and
\* hands any other to parseError
PostDone ==
    /\ pc = "post"
    /\ idx = NumMiddleware + 1
    /\ IF IsSuccess(response)
       THEN /\ pc' = "done"
            /\ outcome' = Returned(response)
            /\ parserArg' = parserArg
       ELSE /\ pc' = "parseError"
            /\ parserArg' = response.status
            /\ outcome' = outcome
    /\ UNCHANGED <<configuration, idx, fetchParams, response, error, attempts>>
    /\ hookCall' = NoHookCall
    /\ UNCHANGED <<validatorVars, managerVars, builderVars, suspended>>

\* runtime.ts:81-82  the parser's error is thrown
ParseErrorDone ==
    /\ pc = "parseError"
    /\ pc' = "done"
    /\ outcome' = Raised("ParsedError", None)
    /\ UNCHANGED <<configuration, idx, fetchParams, response, error, attempts, parserArg>>
    /\ UNCHANGED <<hookCall, validatorVars, managerVars, builderVars, suspended>>

\* KeysManager.ts:51  the manager method wraps the response request() returned
FromResponse ==
    /\ pc = "done"
    /\ outcome.kind = "returned"
    /\ ~envelope.defined
    /\ envelope' = JSONApiResponse(Resp(outcome.status))
    /\ UNCHANGED <<pipelineVars, requestParameters, validatorVars, builderVars, suspended>>

Next ==
    \/ Request
    \/ PreHook
    \/ StartExchange
    \/ \E i \in 1..NumAttempts : TimerFire(i)
    \/ \E s \in Statuses : TransportResolve(s)
    \/ \E k \in RejectKinds : TransportReject(k)
    \/ RetryDelayElapsed
    \/ OnErrorHook
    \/ OnErrorDone
    \/ PostHook
    \/ PostDone
    \/ ParseErrorDone
    \/ FromResponse

Spec == Init /\ [][Next]_vars

(***************************************************************************)
(* Two calls of BaseAPI.request on one instance, interleaved at the awaits *)
(***************************************************************************)
\* an instance with a retry policy of two attempts and a middleware without
\* hooks, and one with a pre hook and a single attempt
ConcurrentConfigurations ==
    {[middleware |-> <<[pre |-> FALSE, post |-> FALSE, onError |-> FALSE]>>,
      retryEnabled |-> TRUE,
      maxAttempts |-> 2],
     [middleware |-> <<[pre |-> TRUE, post |-> FALSE, onError |-> FALSE]>>,
      retryEnabled |-> TRUE,
      maxAttempts |-> 1]}

InitC ==
    /\ configuration \in ConcurrentConfigurations
    /\ validator = ValidatorOf(Reference)
    /\ idToken = TokenOf(Reference)
    /\ options = OptionsOf(Reference)
    /\ now = Reference.now
    /\ result = NoResult
    /\ pc = "idle"
    /\ idx = 0
    /\ fetchParams = [url |-> BuiltUrl, init |-> [signal |-> FALSE]]
    /\ response = Undefined
    /\ error = None
    /\ attempts = <<>>
    /\ parserArg = 0
    /\ outcome = NoOutcome
    /\ hookCall = NoHookCall
    /\ requestParameters = [k \in {"kid", "id"} |-> "empty"]
    /\ envelope = NoEnvelope
    /\ context = IdleContext
    /\ initOverrides = NoOverrides
    /\ params = NoParams
    /\ suspended = NewRequest([k \in {"kid", "id"} |-> "empty"])

\* runtime.ts:71-200  at an await the event loop leaves the running call
\* suspended and resumes the other one; the instance is the same
SwitchRequest ==
    /\ suspended.pc # None
    /\ suspended' = CurrentRequest
    /\ pc' = suspended.pc
    /\ idx' = suspended.idx
    /\ fetchParams' = suspended.fetchParams
    /\ response' = suspended.response
    /\ error' = suspended.error
    /\ attempts' = suspended.attempts
    /\ parserArg' = suspended.parserArg
    /\ outcome' = suspended.outcome
    /\ hookCall' = suspended.hookCall
    /\ requestParameters' = suspended.requestParameters
    /\ envelope' = suspended.envelope
    /\ UNCHANGED <<configuration, validatorVars, builderVars>>

NextC ==
    \/ Next
    \/ SwitchRequest

SpecC == InitC /\ [][NextC]_vars

(***************************************************************************)
(* One call of BaseAPI.request, with the progress the event loop gives it  *)
(***************************************************************************)
\* runtime.ts:136-141  the transport honours the signal it was handed: once
\* the controller whose signal it holds is aborted it rejects with AbortError
ObservedAbort ==
    /\ pc = "exchange"
    /\ attempts[NumAttempts].signal = "controller"
    /\ attempts[NumAttempts].aborted
    /\ TransportReject("AbortError")

\* every hook, the retry delay and the error parser complete; a running
\* timer expires unless it is cleared (runtime.ts:132-134); the transport
\* need not answer, but it reacts to an abort of its signal
Fairness ==
    /\ WF_vars(Request)
    /\ WF_vars(PreHook)
    /\ WF_vars(StartExchange)
    /\ WF_vars(\E i \in 1..NumAttempts : TimerFire(i))
    /\ WF_vars(ObservedAbort)
    /\ WF_vars(RetryDelayElapsed)
    /\ WF_vars(OnErrorHook)
    /\ WF_vars(OnErrorDone)
    /\ WF_vars(PostHook)
    /\ WF_vars(PostDone)
    /\ WF_vars(ParseErrorDone)

SpecL == Spec /\ Fairness

(***************************************************************************)
(* One call of BaseAPI.request on an instance with several middlewares     *)
(***************************************************************************)
\* longest middleware list of these instances
MaxHooks == 2

\* a middleware with every hook and one with none
HookMiddlewares ==
    {[pre |-> TRUE, post |-> TRUE, onError |-> TRUE],
     [pre |-> FALSE, post |-> FALSE, onError |-> FALSE]}

HookConfigurations ==
    [middleware : SeqsUpTo(HookMiddlewares, MaxHooks),
     retryEnabled : {TRUE},
     maxAttempts : {MaxAttempts}]

InitH ==
    /\ configuration \in HookConfigurations
    /\ validator = ValidatorOf(Reference)
    /\ idToken = TokenOf(Reference)
    /\ options = OptionsOf(Reference)
    /\ now = Reference.now
    /\ result = NoResult
    /\ pc = "idle"
    /\ idx = 0
    /\ fetchParams = [url |-> BuiltUrl, init |-> [signal |-> FALSE]]
    /\ response = Undefined
    /\ error = None
    /\ attempts = <<>>
    /\ parserArg = 0
    /\ outcome = NoOutcome
    /\ hookCall = NoHookCall
    /\ requestParameters \in RequestParameterSets
    /\ envelope = NoEnvelope
    /\ context = IdleContext
    /\ initOverrides = NoOverrides
    /\ params = NoParams
    /\ suspended = NoRequest

SpecH == InitH /\ [][Next]_vars

(***************************************************************************)
(* One call of IDTokenValidator.validate                                   *)
(***************************************************************************)
InitV ==
    /\ \E sc \in Deviations(MaxDeviations) :
          /\ validator = ValidatorOf(sc)
          /\ idToken = TokenOf(sc)
          /\ options = OptionsOf(sc)
          /\ now = sc.now
    /\ result = NoResult
    /\ configuration = [middleware |-> <<>>, retryEnabled |-> FALSE, maxAttempts |-> 1]
    /\ pc = "idle"
    /\ idx = 0
    /\ fetchParams = [url |-> BuiltUrl, init |-> [signal |-> FALSE]]
    /\ response = Undefined
    /\ error = None
    /\ attempts = <<>>
    /\ parserArg = 0
    /\ outcome = NoOutcome
    /\ hookCall = NoHookCall
    /\ requestParameters = [k \in {"kid", "id"} |-> "empty"]
    /\ envelope = NoEnvelope
    /\ context = IdleContext
    /\ initOverrides = NoOverrides
    /\ params = NoParams
    /\ suspended = NoRequest

\* id-token-validator:41-174  validate() settles
ValidateToken ==
    /\ result.state = "none"
    /\ result' = Validate(validator, idToken, options, now)
    /\ UNCHANGED <<validator, idToken, options, now>>
    /\ UNCHANGED <<pipelineVars, managerVars, builderVars, suspended>>

NextV == ValidateToken

SpecV == InitV /\ [][NextV]_vars

(***************************************************************************)
(* One call of BaseAPI.createFetchParams                                   *)
(***************************************************************************)
InitF ==
    /\ configuration \in BuilderConfigurations
    /\ context \in Contexts
    /\ initOverrides \in InitOverrideSet
    /\ params = NoParams
    /\ suspended = NoRequest
    /\ validator = ValidatorOf(Reference)
    /\ idToken = TokenOf(Reference)
    /\ options = OptionsOf(Reference)
    /\ now = Reference.now
    /\ result = NoResult
    /\ pc = "idle"
    /\ idx = 0
    /\ fetchParams = [url |-> BuiltUrl, init |-> [signal |-> FALSE]]
    /\ response = Undefined
    /\ error = None
    /\ attempts = <<>>
    /\ parserArg = 0
    /\ outcome = NoOutcome
    /\ hookCall = NoHookCall
    /\ requestParameters = [k \in {"kid", "id"} |-> "empty"]
    /\ envelope = NoEnvelope

\* runtime.ts:85-128  createFetchParams() resolves
CreateFetchParamsDone ==
    /\ ~params.built
    /\ params' = CreateFetchParams(configuration, context, initOverrides)
    /\ UNCHANGED <<context, initOverrides>>
    /\ UNCHANGED <<pipelineVars, validatorVars, managerVars, suspended>>

NextF == CreateFetchParamsDone

SpecF == InitF /\ [][NextF]_vars


(***************************************************************************)
(* Properties of the request pipeline                                      *)
(***************************************************************************)
\* fetch() has returned a response to request(): the post phase is over
FetchReturned == pc \in {"parseError", "done"} /\ response.defined
\* fetch() has thrown: the catch block was entered and no hook recovered
FetchThrew == pc = "done" /\ ~response.defined
\* the exchange failed and the failure reached the catch block of fetch()
ExchangeFailed == error # None
AllAttemptsFailed == \A i \in 1..NumAttempts : attempts[i].thrown # None

\* C1: the error parser is invoked if and only if the final response of the
\* pipeline has a status outside 200..299; a 2xx response is returned and
\* never parsed, any other response is parsed and the parser's error raised.
C1_ParserIffNot2xx ==
    /\ FetchReturned /\ response.status \in 200..299 =>
          /\ parserArg = 0
          /\ outcome.kind = "returned" /\ outcome.status = response.status
    /\ FetchReturned /\ response.status \notin 200..299 =>
          /\ parserArg = response.status
          /\ pc = "done" => outcome.kind = "raised" /\ outcome.error = "ParsedError"
    /\ ~FetchReturned => parserArg = 0
    /\ outcome.error = "ParsedError" => parserArg # 0

C1_Witness ==
    /\ pc = "done"
    /\ response.status = 300
    /\ parserArg = 300
    /\ outcome.error = "ParsedError"

\* C2: once the timer of a fetchWithTimeout call has fired before the
\* transport settled, the call raises a timeout error whatever the transport
\* does later; a late response is never returned.
C2_TimeoutAlwaysRaised ==
    \A i \in 1..NumAttempts :
        attempts[i].settled /\ attempts[i].timer = "fired" =>
            attempts[i].thrown = "TimeoutError" /\ attempts[i].status = 0

\* C3: a failure caused by the timeout that no onError hook recovers is
\* raised to the caller as TimeoutError; a failure with another cause is
\* raised as FetchError (a thrown value that is not an Error is rethrown
\* unchanged, runtime.ts:185, and is left out of the statement).
C3_TimeoutErrorRaised ==
    FetchThrew =>
        /\ error = "TimeoutError" /\ attempts[NumAttempts].timer = "fired" =>
              outcome.error = "TimeoutError"
        /\ error = "Error" => outcome.error = "FetchError"

\* C4: the timer of every completed fetchWithTimeout call (returned or
\* raised) is no longer pending, so it cannot fire afterwards.
C4_NoLeakedTimer ==
    \A i \in 1..NumAttempts : attempts[i].settled => attempts[i].timer # "pending"

C4_Witness ==
    \E i \in 1..NumAttempts :
        /\ attempts[i].settled
        /\ attempts[i].thrown = "Error"
        /\ attempts[i].timer = "cleared"

\* C5: with retry.enabled = false a failing exchange is attempted exactly
\* once before the failure reaches the onError phase or the caller.
C5_NoRetryOneAttempt ==
    ~configuration.retryEnabled /\ ExchangeFailed => NumAttempts = 1

C5_Witness ==
    /\ ~configuration.retryEnabled
    /\ configuration.maxAttempts >= 2
    /\ pc = "done"
    /\ outcome.error = "FetchError"
    /\ NumAttempts = 1

\* C6: with retries enabled and a maximum of N attempts, an exchange failing
\* on every attempt is attempted exactly N times, and the final error
\* reaches the onError phase only after the N-th attempt.
C6_RetryExactlyN ==
    /\ configuration.retryEnabled /\ ExchangeFailed /\ AllAttemptsFailed =>
          NumAttempts = configuration.maxAttempts
    /\ configuration.retryEnabled /\ AllAttemptsFailed
          /\ NumAttempts < configuration.maxAttempts => ~ExchangeFailed

C6_Witness ==
    /\ configuration.retryEnabled
    /\ configuration.maxAttempts >= 2
    /\ pc = "done"
    /\ outcome.error = "FetchError"
    /\ AllAttemptsFailed
    /\ NumAttempts = configuration.maxAttempts

(***************************************************************************)
(* Properties of the token validator                                       *)
(***************************************************************************)
Validated == result.state # "none"
Accepted == result.state = "returned"
Rejected_ == result.state = "raised"
Payload == idToken.payload
Supplied(v) == v.t # "undefined"

\* the checks of the validator as the specification states them (4.4)
SignatureExpected ==
    /\ idToken.header.alg = validator.alg
    /\ \/ validator.alg \in HSFamily /\ idToken.signedWith = "secret"
       \/ validator.alg \in RSFamily /\ idToken.signedWith = "jwks"
IssuerExpected == Payload.iss = Str(Issuer)
SubjectExpected == Payload.sub.t = "string" /\ Payload.sub.s # ""
AudienceExpected ==
    \/ Payload.aud = Str(ClientId)
    \/ Payload.aud.t = "array" /\ Includes(Payload.aud, ClientId)
OrganizationExpected == Supplied(options.organization) => Payload.org_id = options.organization
ExpirationExpected ==
    Payload.exp.t = "number" /\ now <= Payload.exp.n + validator.clockTolerance
IssuedAtExpected == Payload.iat.t = "number"
NonceExpected == Supplied(options.nonce) => Payload.nonce = options.nonce
AuthorizedPartyExpected ==
    Payload.aud.t = "array" /\ Len(Payload.aud.a) > 1 => Payload.azp = Str(ClientId)
AuthTimeExpected ==
    Supplied(options.maxAge) =>
        /\ Payload.auth_time.t = "number"
        /\ now <= Payload.auth_time.n + options.maxAge.n + validator.clockTolerance

\* C7: validate returns a claim set only when the signature/header check and
\* every applicable claim check have passed (organization, nonce and
\* authentication time apply when the expectation is given); the returned
\* claim set is the full decoded payload.
C7_ReturnsOnlyValidated ==
    Accepted =>
        /\ SignatureExpected
        /\ IssuerExpected
        /\ SubjectExpected
        /\ AudienceExpected
        /\ OrganizationExpected
        /\ ExpirationExpected
        /\ IssuedAtExpected
        /\ NonceExpected
        /\ AuthorizedPartyExpected
        /\ AuthTimeExpected
        /\ result.payload = Payload

\* C8: a token whose header algorithm differs from the configured algorithm
\* is rejected, also when its signature verifies with the selected key.
C8_AlgorithmMismatchRejected ==
    Validated /\ idToken.header.alg # validator.alg => Rejected_

C8_Witness ==
    /\ idToken.header.alg # validator.alg
    /\ SignatureVerifies(idToken, KeyFor(validator))
    /\ result = Invalid("alg")

\* every check of validate() other than the comparison of exp with the clock
OtherChecksPass ==
    /\ SignatureExpected
    /\ IssuerExpected
    /\ SubjectExpected
    /\ AudienceExpected
    /\ OrganizationCheck(Payload, options)
    /\ ExpirationPresent(Payload)
    /\ IssuedAtExpected
    /\ NonceCheck(Payload, options)
    /\ AuthorizedPartyExpected
    /\ AuthTimeCheck(Payload, validator, options, now)

\* C9: a token that passes every other check is accepted when the current
\* time equals exp + clockTolerance and rejected when it equals
\* exp + clockTolerance + 1.
C9_ExpirationBoundary ==
    Validated /\ OtherChecksPass =>
        /\ now = Payload.exp.n + validator.clockTolerance => Accepted
        /\ now = Payload.exp.n + validator.clockTolerance + 1 => Rejected_

\* C10: an aud array without the client id is rejected; an aud array with
\* the client id is not rejected by the audience check, whatever its other
\* entries; a string aud must equal the client id.
C10_AudienceMembership ==
    Validated =>
        /\ Payload.aud.t = "array" /\ ~Includes(Payload.aud, ClientId) => Rejected_
        /\ Payload.aud.t = "array" /\ Includes(Payload.aud, ClientId) => result.check # "aud"
        /\ Payload.aud.t = "string" /\ Payload.aud.s # ClientId => Rejected_
        /\ Payload.aud.t = "string" /\ Payload.aud.s = ClientId => result.check # "aud"

C10_Witness ==
    /\ Payload.aud = Arr(<<OtherClient, ClientId>>)
    /\ Accepted

\* C11: azp is required exactly when aud is an array with more than one
\* entry: then a token whose azp is absent, not a string or not the client
\* id is rejected; for a string aud or a one-entry array azp is not checked.
AzpRequired == Payload.aud.t = "array" /\ Len(Payload.aud.a) > 1

C11_AzpOnlyForMultipleAudiences ==
    Validated =>
        /\ AzpRequired /\ Payload.azp # Str(ClientId) => Rejected_
        /\ ~AzpRequired => result.check # "azp"

C11_Witness ==
    /\ Payload.aud = Arr(<<ClientId, OtherClient>>)
    /\ Payload.azp = Absent
    /\ ~Supplied(options.maxAge)
    /\ result = Invalid("azp")

\* the checks in the order of 4.4, each with the check it is reported as
CheckOrder ==
    <<"signature", "iss", "sub", "aud", "org_id", "exp", "iat", "nonce", "azp",
      "auth_time">>
Expected(k) ==
    CASE k = "signature" -> SignatureExpected
      [] k = "iss" -> IssuerExpected
      [] k = "sub" -> SubjectExpected
      [] k = "aud" -> AudienceExpected
      [] k = "org_id" -> OrganizationExpected
      [] k = "exp" -> ExpirationExpected
      [] k = "iat" -> IssuedAtExpected
      [] k = "nonce" -> NonceExpected
      [] k = "azp" -> AuthorizedPartyExpected
      [] k = "auth_time" -> AuthTimeExpected
ViolatedChecks == {i \in 1..Len(CheckOrder) : ~Expected(CheckOrder[i])}
FirstViolated == CheckOrder[CHOOSE i \in ViolatedChecks : \A j \in ViolatedChecks : i <= j]
\* the algorithm check belongs to the signature step
ReportedCheck == IF result.check = "alg" THEN "signature" ELSE result.check

\* C12: the checks run in the order signature/algorithm, issuer, subject,
\* audience, organization, expiration, issued-at, nonce, authorized party,
\* authentication time: for a token that violates several checks, the error
\* raised is the one of the earliest violated check.
C12_FirstViolatedReported ==
    Rejected_ /\ Cardinality(ViolatedChecks) >= 2 => ReportedCheck = FirstViolated

\* C13: every rejection is raised as IdTokenValidatorError.
C13_OwnErrorType ==
    Rejected_ => result.class = "IdTokenValidatorError"

\* C14: whenever a max-age is supplied, a token is rejected if auth_time is
\* absent or not a number or if now > auth_time + maxAge + clockTolerance, and
\* is not rejected by this check at now = auth_time + maxAge + clockTolerance;
\* without a max-age auth_time is not checked.
AuthValidUntil == Payload.auth_time.n + options.maxAge.n + validator.clockTolerance

C14_MaxAge ==
    Validated =>
        /\ Supplied(options.maxAge) /\ Payload.auth_time.t # "number" => Rejected_
        /\ Supplied(options.maxAge) /\ Payload.auth_time.t = "number"
              /\ now > AuthValidUntil => Rejected_
        /\ Supplied(options.maxAge) /\ Payload.auth_time.t = "number"
              /\ now = AuthValidUntil => result.check # "auth_time"
        /\ ~Supplied(options.maxAge) => result.check # "auth_time"

SignatureAccepted == Validated /\ result.check # "signature"
SignedWith(key) ==
    /\ idToken.signedWith = key
    /\ idToken.header.alg \in (IF key = "secret" THEN HSFamily ELSE RSFamily)

MissingKeys ==
    {i \in 1..Len(RequiredKeys) :
        requestParameters[RequiredKeys[i]] \in {"null", "undefined"}}
FirstMissingKey ==
    RequiredKeys[CHOOSE i \in MissingKeys : \A j \in MissingKeys : i <= j]
ExpectedMessage(key) ==
    CASE key = "kid" -> "Required parameter requestParameters.kid was null or undefined."
      [] key = "id" -> "Required parameter requestParameters.id was null or undefined."

\* C17: a manager method called with a null or undefined required parameter
\* raises RequiredError naming the first such key of the required-key list,
\* with the message 'Required parameter requestParameters.<key> was null or
\* undefined.', before any pre middleware has run and before any transport
\* call; with every required key present it raises nothing and goes on to
\* the request.
C17_RequiredParams ==
    [][/\ pc = "idle" =>
            IF MissingKeys # {}
            THEN /\ pc' = "done"
                 /\ outcome'.kind = "raised"
                 /\ outcome'.error = "RequiredError"
                 /\ outcome'.field = FirstMissingKey
                 /\ outcome'.message = ExpectedMessage(FirstMissingKey)
            ELSE /\ pc' = "pre"
                 /\ outcome'.kind = "none"
       /\ outcome'.error = "RequiredError" =>
            /\ idx' = 0
            /\ attempts' = <<>>
            /\ response' = Undefined]_vars

C17_Witness ==
    /\ requestParameters["kid"] = "null"
    /\ requestParameters["id"] = "undefined"
    /\ pc = "done"
    /\ outcome.error = "RequiredError"
    /\ outcome.field = "kid"

QueryHasKeys == context.query.defined /\ Len(context.query.entries) >= 1
LastPiece(url) == url[Len(url)]

\* C19: the built URL is the base URL followed by the path, followed by '?'
\* and the (non-empty) query string exactly when the query map has at least
\* one key; with an absent or empty query map the URL is base URL and path
\* only and does not end in '?'.
C19_QueryOnlyWithKeys ==
    params.built =>
        /\ SubSeq(params.url, 1, 2) = <<configuration.baseUrl, context.path>>
        /\ IF QueryHasKeys
           THEN /\ Len(params.url) > 3
                /\ params.url[3] = "?"
                /\ SubSeq(params.url, 4, Len(params.url))
                      = Querystring(context.query.entries)
           ELSE /\ Len(params.url) = 2
                /\ LastPiece(params.url) # "?"

C19_Witness ==
    /\ params.built
    /\ context.query.defined
    /\ Len(context.query.entries) = 2
    /\ params.url = <<"https://tenant/api/v2", "/keys/signing", "?",
                      "a%26b", "=", "x%20y", "&",
                      "q", "=", "1", "&", "q", "=", "x%20y">>

ExpectedHeader(k) ==
    LET r == context.headers[k]
        d == configuration.headers[k]
        merged == IF r # "absent" THEN r ELSE d
    IN  IF merged = "undefined" THEN "absent" ELSE merged

HookPhases == {"pre", "onError", "post"}
InFlight == {i \in 1..NumAttempts : ~attempts[i].settled}
ExchangeOver == NumAttempts >= 1 /\ InFlight = {}
ExchangeFailedFinally == ExchangeOver /\ attempts[NumAttempts].thrown # None
ExchangeSucceeded == ExchangeOver /\ attempts[NumAttempts].thrown = None

\* where the request is suspended, as a state predicate
PhasesSequential ==
    /\ InFlight \subseteq {NumAttempts}
    /\ (InFlight # {}) <=> (pc = "exchange")
    /\ pc \in {"idle", "pre"} => attempts = <<>>
    /\ pc \in HookPhases => (InFlight = {} /\ idx \in 1..(NumMiddleware + 1))
    /\ pc = "onError" => (ExchangeFailedFinally /\ error # None)
    /\ pc = "post" =>
          /\ response.defined
          /\ \/ ExchangeSucceeded /\ error = None
             \/ ExchangeFailedFinally /\ error # None
    /\ hookCall.phase # None =>
          /\ pc = hookCall.phase
          /\ hookCall.mw = idx - 1
          /\ Middleware[hookCall.mw][hookCall.phase]

\* C21: the phases of one request are sequential and ordered: a loop of hooks
\* goes through the middleware list one index at a time and is left only
\* after the last one; the first attempt starts only when the pre loop is
\* over; the onError loop starts only when the exchange has failed for good
\* and no attempt starts after it; the post loop starts only with a response,
\* after the exchange has succeeded or an onError hook has supplied one; at
\* most one attempt is in flight, and none while a hook loop is running.
C21_PhasesSequential ==
    [][/\ PhasesSequential'
       /\ pc \in HookPhases /\ idx <= NumMiddleware =>
             (pc' = pc /\ idx' = idx + 1 /\ attempts' = attempts)
       /\ Len(attempts') > Len(attempts) =>
             \/ pc = "pre" /\ idx = NumMiddleware + 1 /\ attempts = <<>>
             \/ pc = "retryWait" /\ InFlight = {}
       /\ pc \in {"onError", "post", "parseError", "done"} => attempts' = attempts
       /\ pc' = "onError" /\ pc # "onError" => pc = "exchange"
       /\ pc' = "post" /\ pc # "post" =>
             \/ pc = "exchange"
             \/ pc = "onError" /\ idx = NumMiddleware + 1 /\ response.defined
       /\ pc = "onError" /\ idx = NumMiddleware + 1 /\ ~response.defined =>
             (pc' = "done" /\ outcome'.kind = "raised")]_vars

C21_Witness ==
    /\ NumMiddleware = 2
    /\ NumAttempts = 2
    /\ pc = "post"
    /\ error # None
    /\ hookCall.phase = "post"
    /\ hookCall.mw = 2


\* C22: the pre phase is a left-to-right fold: the loop starts from the built
\* url and options; each pre hook is given the value current at its turn,
\* that is the result of the turn before it; the result of a turn is what
\* the hook returned, or the value it was given when it returned nothing or
\* the middleware has no pre hook; the value after the last turn is not
\* changed any more and every attempt of the exchange is made with it.
C22_PreFold ==
    [][/\ pc = "idle" /\ pc' = "pre" => fetchParams'.url = BuiltUrl
       /\ pc = "pre" /\ idx <= NumMiddleware =>
             IF Middleware[idx].pre
             THEN /\ hookCall'.phase = "pre"
                  /\ hookCall'.received = fetchParams
                  /\ fetchParams' = IF hookCall'.returned = NoFetchParams
                                    THEN fetchParams
                                    ELSE hookCall'.returned
             ELSE fetchParams' = fetchParams
       /\ ~(pc = "pre" /\ idx <= NumMiddleware) /\ pc # "idle" =>
             fetchParams' = fetchParams
       /\ \A i \in 1..Len(attempts') :
             /\ attempts'[i].url = fetchParams'.url
             /\ (attempts'[i].signal = "init") <=> fetchParams'.init.signal]_vars

C22_Witness ==
    /\ pc = "pre"
    /\ idx = 3
    /\ hookCall.phase = "pre"
    /\ hookCall.mw = 2
    /\ hookCall.received.url = HookUrl
    /\ hookCall.returned = NoFetchParams
    /\ fetchParams.url = HookUrl


\* C23: when the exchange has failed for good, the onError loop starts
\* without a response and goes through every middleware in order, whether or
\* not an earlier hook supplied a response; after each hook the response is
\* the one that hook returned, or the one before it when it returned none;
\* the post phase is entered with the response left by the loop, and no
\* error is raised, exactly when that response is defined, that is when at
\* least one hook returned one; otherwise the failure is raised as FetchError
\* (or as the thrown value itself when it is not an Error) and no post hook
\* runs.
C23_OnErrorRecovery ==
    [][/\ pc' = "onError" /\ pc # "onError" => (~response'.defined /\ idx' = 1)
       /\ pc = "onError" /\ idx <= NumMiddleware =>
             /\ pc' = "onError"
             /\ idx' = idx + 1
             /\ IF Middleware[idx].onError
                THEN /\ hookCall'.phase = "onError"
                     /\ hookCall'.mw = idx
                     /\ response' = IF hookCall'.returned.defined
                                    THEN hookCall'.returned
                                    ELSE response
                ELSE response' = response
       /\ pc = "onError" /\ idx = NumMiddleware + 1 =>
             IF response.defined
             THEN /\ pc' = "post"
                  /\ response' = response
                  /\ outcome'.kind = "none"
             ELSE /\ pc' = "done"
                  /\ outcome'.kind = "raised"
                  /\ outcome'.error \in {"FetchError", "NonError"}
       /\ outcome'.kind = "raised" /\ outcome'.error \in {"FetchError", "NonError"} =>
             (pc' = "done" /\ ~response'.defined /\ hookCall'.phase # "post")]_vars

C23_Witness ==
    /\ NumMiddleware = 2
    /\ pc = "onError"
    /\ idx = 3
    /\ hookCall.phase = "onError"
    /\ hookCall.mw = 2
    /\ hookCall.received = Resp(404)
    /\ hookCall.returned = Resp(201)
    /\ response = Resp(201)


\* C24: the post phase is a left-to-right fold: the loop starts from the
\* response of the exchange, or from the one the onError loop left; each post
\* hook is given the response current at its turn; the result of a turn is
\* what the hook returned, or the response it was given when it returned
\* nothing or the middleware has no post hook; the response after the last
\* turn is the one whose status decides: 2xx is returned to the caller with
\* that status, any other is handed to the error parser.
C24_PostFold ==
    [][/\ pc = "exchange" /\ pc' = "post" =>
             /\ response'.defined
             /\ response'.status = attempts'[Len(attempts')].status
       /\ pc = "onError" /\ pc' = "post" => response' = response
       /\ pc = "post" /\ idx <= NumMiddleware =>
             /\ pc' = "post"
             /\ idx' = idx + 1
             /\ IF Middleware[idx].post
                THEN /\ hookCall'.phase = "post"
                     /\ hookCall'.mw = idx
                     /\ hookCall'.received = response
                     /\ response' = IF hookCall'.returned.defined
                                    THEN hookCall'.returned
                                    ELSE response
                ELSE response' = response
       /\ pc = "post" /\ idx = NumMiddleware + 1 =>
             /\ response' = response
             /\ IF response.status \in 200..299
                THEN /\ pc' = "done"
                     /\ outcome'.kind = "returned"
                     /\ outcome'.status = response.status
                ELSE /\ pc' = "parseError"
                     /\ parserArg' = response.status]_vars

C24_Witness ==
    /\ NumMiddleware = 2
    /\ Middleware[1].post
    /\ Middleware[2].post
    /\ pc = "done"
    /\ error = None
    /\ NumAttempts >= 1
    /\ attempts[NumAttempts].status = 500
    /\ outcome.kind = "returned"
    /\ outcome.status = 201


(***************************************************************************)
(* Properties of the timer and the signal of an attempt                    *)
(***************************************************************************)
\* C25: every attempt starts with a controller and a timer of its own: when
\* an attempt starts the timers of all earlier attempts have stopped (fired
\* or cleared), the new timer is running and the new controller is not
\* aborted, whatever happened to the earlier ones; a controller is aborted
\* only by the timer of its own attempt, and the expiry of a timer changes
\* nothing of any other attempt.
C25_TimeoutPerAttempt ==
    [][/\ Len(attempts') > Len(attempts) =>
             /\ Len(attempts') = Len(attempts) + 1
             /\ attempts'[Len(attempts')].timer = "pending"
             /\ ~attempts'[Len(attempts')].aborted
             /\ ~attempts'[Len(attempts')].settled
             /\ \A i \in 1..Len(attempts) :
                   /\ attempts'[i] = attempts[i]
                   /\ attempts[i].timer \in {"fired", "cleared"}
       /\ \A i \in 1..Len(attempts) :
             /\ attempts'[i].aborted <=> attempts'[i].timer = "fired"
             /\ (attempts'[i].timer = "fired" /\ attempts[i].timer # "fired") =>
                   /\ i = Len(attempts)
                   /\ attempts[i].timer = "pending"
                   /\ \A j \in 1..Len(attempts) : j # i => attempts'[j] = attempts[j]]_vars

C25_Witness ==
    /\ pc = "exchange"
    /\ NumAttempts = 2
    /\ attempts[1].timer = "fired"
    /\ attempts[1].aborted
    /\ attempts[2].timer = "pending"
    /\ ~attempts[2].aborted


\* C26: every transport call is handed the signal of the controller that its
\* own fetchWithTimeout call created, whatever the request options are, so
\* that the expiry of the call's timer is an abort request to that exchange.
C26_OwnSignal ==
    \A i \in 1..NumAttempts :
        /\ attempts[i].signal = "controller"
        /\ attempts[i].timer = "fired" => SignalTriggered(attempts[i])


(***************************************************************************)
(* Termination of a request                                                *)
(***************************************************************************)
\* C28: every call of request() eventually completes: it returns a 2xx
\* response or raises an error.
C28_Terminates ==
    <>(pc = "done" /\ outcome.kind \in {"returned", "raised"})


(***************************************************************************)
(* Independence of two calls on one instance                               *)
(***************************************************************************)
\* C27: two calls running on the same instance share no mutable state: a
\* step of the running call (a hook turn, the start, the timeout, the
\* settling or the retry of an attempt, the end of the call) leaves every
\* local of the other call as it was: its url and options, its attempts
\* with their timers and signals, its response and its outcome; when the
\* event loop passes from one call to the other, both calls are as they were
\* left; and no step changes the configuration of the instance.
C27_CallsIndependent ==
    [][/\ configuration' = configuration
       /\ \/ suspended' = suspended
          \/ /\ suspended' = CurrentRequest
             /\ CurrentRequest' = suspended]_vars

C27_Witness ==
    /\ pc = "exchange"
    /\ suspended.pc = "exchange"
    /\ NumAttempts = 2
    /\ attempts[2].timer = "fired"
    /\ attempts[2].aborted
    /\ Len(suspended.attempts) = 1
    /\ suspended.attempts[1].timer = "pending"
    /\ ~suspended.attempts[1].aborted
    /\ fetchParams.init.signal # suspended.fetchParams.init.signal

====
